---- MODULE Spec2Model ----
(***************************************************************************)
(* Model of flashcards/scrape_opentdb.py: the three scrape orchestrators   *)
(* (scrape_all_questions, scrape_quick, scrape_category_range), the API    *)
(* client they drive, the dedup collector, and merge_scraped_files.        *)
(*                                                                         *)
(* Strings whose content matters (question text, answers, category names   *)
(* of questions) are sequences of code points, compared the way Python     *)
(* compares str values.  The opentdb server and the file system are the    *)
(* environment: every outcome they can produce is a nondeterministic       *)
(* choice of the action that performs the call.                            *)
(***************************************************************************)
EXTENDS Integers, Sequences, FiniteSets, TLC

\* ------------------------------------------------------------------ bounds
\* Length of the prefix of the CATEGORIES catalog that the full sweep walks.
NumCategories == 2
\* Largest num_requests given to scrape_quick.
MaxRequests == 2
\* Longest cat_ids list given to scrape_category_range.
MaxCatIds == 1
\* Longest "results" array of one API response.
MaxResults == 2
\* Questions the server hands out with code 0 during one run.
MaxOffered == 3
\* Longest input_files list given to merge_scraped_files.
MaxFiles == 2
\* Longest "questions" array of one archive file given to the merge.
MaxEntries == 2
\* Longest collection handed to save_flashcard_format on its own.
MaxQuestions == 2

\* --------------------------------------------------------------- constants
\* RATE_LIMIT_DELAY = 5.5 seconds, in tenths of a second.
RATE_LIMIT_DELAY == 55
NoToken == "None"
\* Response code of a `data` that no fetch has assigned yet.
NoCode == 0 - 99
NoData == [response_code |-> NoCode, results |-> <<>>]
NoRequest == [unset |-> TRUE]
NoArchive == [unwritten |-> TRUE]
Raised == [exception |-> TRUE]

CATEGORIES ==
  [c \in 9..32 |->
     CASE c = 9  -> "General Knowledge"
       [] c = 10 -> "Entertainment: Books"
       [] c = 11 -> "Entertainment: Film"
       [] c = 12 -> "Entertainment: Music"
       [] c = 13 -> "Entertainment: Musicals & Theatres"
       [] c = 14 -> "Entertainment: Television"
       [] c = 15 -> "Entertainment: Video Games"
       [] c = 16 -> "Entertainment: Board Games"
       [] c = 17 -> "Science & Nature"
       [] c = 18 -> "Science: Computers"
       [] c = 19 -> "Science: Mathematics"
       [] c = 20 -> "Mythology"
       [] c = 21 -> "Sports"
       [] c = 22 -> "Geography"
       [] c = 23 -> "History"
       [] c = 24 -> "Politics"
       [] c = 25 -> "Art"
       [] c = 26 -> "Celebrities"
       [] c = 27 -> "Animals"
       [] c = 28 -> "Vehicles"
       [] c = 29 -> "Entertainment: Comics"
       [] c = 30 -> "Science: Gadgets"
       [] c = 31 -> "Entertainment: Japanese Anime & Manga"
       [] OTHER  -> "Entertainment: Cartoon & Animations"]

\* The catalog ids in dict order, cut to the modelled prefix.
CatalogIds == [k \in 1..NumCategories |-> 8 + k]

DIFFICULTIES == <<"easy", "medium", "hard">>

\* ------------------------------------------------------------ str helpers
\* Python's str "<": lexicographic on code points.
RECURSIVE StrLess(_, _)
StrLess(a, b) ==
  IF b = <<>> THEN FALSE
  ELSE IF a = <<>> THEN TRUE
  ELSE IF Head(a) # Head(b) THEN Head(a) < Head(b)
  ELSE StrLess(Tail(a), Tail(b))

\* Position at which list.sort()/sorted() places x in an ascending list:
\* after every element that is not greater than x (the sort is stable).
RECURSIVE InsertSorted(_, _)
InsertSorted(x, s) ==
  IF s = <<>> THEN <<x>>
  ELSE IF StrLess(x, Head(s)) THEN <<x>> \o s
  ELSE <<Head(s)>> \o InsertSorted(x, Tail(s))

RECURSIVE sorted(_)
sorted(s) ==
  IF s = <<>> THEN <<>>
  ELSE InsertSorted(s[Len(s)], sorted(SubSeq(s, 1, Len(s) - 1)))

\* "".join(parts)
RECURSIVE join(_)
join(parts) == IF parts = <<>> THEN <<>> ELSE Head(parts) \o join(Tail(parts))

\* Value of a hexadecimal digit, -1 for any other code point.
HexVal(c) ==
  IF c >= 48 /\ c <= 57 THEN c - 48
  ELSE IF c >= 65 /\ c <= 70 THEN c - 55
  ELSE IF c >= 97 /\ c <= 102 THEN c - 87
  ELSE 0 - 1

\* urllib.parse.unquote on ASCII text: "%XX" becomes the code point 0xXX,
\* a "%" not followed by two hex digits stays.
RECURSIVE unquote(_)
unquote(s) ==
  IF s = <<>> THEN <<>>
  ELSE IF Head(s) = 37 /\ Len(s) >= 3 /\ HexVal(s[2]) >= 0 /\ HexVal(s[3]) >= 0
       THEN <<16 * HexVal(s[2]) + HexVal(s[3])>> \o unquote(SubSeq(s, 4, Len(s)))
  ELSE <<Head(s)>> \o unquote(Tail(s))

\* dict helpers: d[k] = v on a copy, d.get(k, default)
DictSet(d, k, v) == [x \in DOMAIN d \cup {k} |-> IF x = k THEN v ELSE d[x]]
DictGet(d, k, default) == IF k \in DOMAIN d THEN d[k] ELSE default

Range(s) == {s[i] : i \in 1..Len(s)}
SeqsUpTo(S, n) == UNION {[1..k -> S] : k \in 0..n}

\* Content without the sorted() of line 75.
ContentUnsorted(question_data) ==
  question_data["question"]
    \o join(DictGet(question_data, "incorrect_answers", <<>>))

\* ------------------------------------------------------ identity hasher
\* The text that generate_question_id encodes and hands to hashlib.md5.
Content(question_data) ==
  question_data["question"]
    \o join(sorted(DictGet(question_data, "incorrect_answers", <<>>)))

\* hashlib.md5(...).hexdigest()[:12], kept symbolic: the digest of a text is
\* a value tagged with that text.
md5_12(content) == <<"md5", content>>

\* A dict without "question" makes generate_question_id raise KeyError.
generate_question_id(question_data) ==
  IF "question" \notin DOMAIN question_data THEN Raised
  ELSE md5_12(Content(question_data))

\* ------------------------------------------------------------ API client
\* What the token endpoint can do to one call: answer with code 0, answer
\* with another code, or fail in transport (requests.get raises).
TokenOutcomes == {"ok", "error_code", "raise"}

\* Return value of get_session_token when the call returns.
get_session_token(outcome) == IF outcome = "ok" THEN "tok" ELSE NoToken

\* Return value of reset_token when the call returns.
reset_token(outcome) == outcome = "ok"

\* Query parameters of one fetch; a falsy filter is left out (category=None
\* is the falsy id 0 here, difficulty=None the string "None").
FetchParams(amount, category, difficulty, tok) ==
  [k \in {"amount", "type", "encode"}
         \cup (IF category # 0 THEN {"category"} ELSE {})
         \cup (IF difficulty # "None" THEN {"difficulty"} ELSE {})
         \cup (IF tok # NoToken THEN {"token"} ELSE {}) |->
     CASE k = "amount" -> amount
       [] k = "type" -> "multiple"
       [] k = "encode" -> "url3986"
       [] k = "category" -> category
       [] k = "difficulty" -> difficulty
       [] OTHER -> tok]

\* Result entries as they travel on the wire (text fields percent-encoded).
\* W1 and W2 carry the same text and the same incorrect answers in another
\* order, under two categories; W2 spells "b" as "%62".
W1 == [category |-> <<120>>, difficulty |-> "easy", question |-> <<97, 98>>,
       correct_answer |-> <<101>>, incorrect_answers |-> << <<99>>, <<100>> >>]
W2 == [category |-> <<121>>, difficulty |-> "hard", question |-> <<97, 37, 54, 50>>,
       correct_answer |-> <<101>>, incorrect_answers |-> << <<100>>, <<99>> >>]
W3 == [category |-> <<120>>, difficulty |-> "medium", question |-> <<98>>,
       correct_answer |-> <<97>>, incorrect_answers |-> << <<99>> >>]
\* An entry without its "question" field.
WBad == [category |-> <<120>>, difficulty |-> "easy",
         correct_answer |-> <<97>>, incorrect_answers |-> << <<99>> >>]
WirePool == {W1, W2, W3}

ResponseCodes == {0, 1, 2, 4}

\* Everything one call of the question endpoint can produce once `given`
\* questions were handed out: a transport failure, a body with code 0 and
\* any short results array, or a body with another code whose results array
\* is empty or, against the API's description, is not.
FetchOutcomes(given) ==
  {[kind |-> "failure"]}
    \cup {[kind |-> "response", body |-> [response_code |-> 0, results |-> r]] :
            r \in {x \in SeqsUpTo(WirePool, MaxResults) : Len(x) + given <= MaxOffered}
                    \cup {<<WBad>>}}
    \cup {[kind |-> "response", body |-> [response_code |-> c, results |-> r]] :
            c \in ResponseCodes \ {0}, r \in {<<>>, <<W3>>}}

\* Lines 112-116: the four text fields of one entry, percent-decoded.
DecodeEntry(q) ==
  [k \in DOMAIN q |->
     CASE k = "question" -> unquote(q[k])
       [] k = "correct_answer" -> unquote(q[k])
       [] k = "category" -> unquote(q[k])
       [] k = "incorrect_answers" -> [i \in 1..Len(q[k]) |-> unquote(q[k][i])]
       [] OTHER -> q[k]]

EntryFields == {"question", "correct_answer", "incorrect_answers", "category"}

\* fetch_questions, given what the endpoint did: any exception inside the
\* try block (transport failure, an entry lacking a field) gives code -1.
fetch_questions(outcome) ==
  IF outcome.kind = "failure" THEN [response_code |-> 0 - 1, results |-> <<>>]
  ELSE IF outcome.body.response_code # 0 THEN outcome.body
  ELSE IF \E i \in 1..Len(outcome.body.results) :
            ~(EntryFields \subseteq DOMAIN outcome.body.results[i])
       THEN [response_code |-> 0 - 1, results |-> <<>>]
  ELSE [response_code |-> 0,
        results |-> [i \in 1..Len(outcome.body.results) |->
                       DecodeEntry(outcome.body.results[i])]]

\* -------------------------------------------------------- dedup collector
\* The loop "for q in data['results']" of the orchestrators: an entry whose
\* id is unseen is marked seen, gets its id and is appended.
\* Collect without the membership test on seen_ids.
RECURSIVE CollectNoSeenCheck(_, _, _)
CollectNoSeenCheck(results, qs, seen) ==
  IF results = <<>> THEN [all_questions |-> qs, seen_ids |-> seen]
  ELSE LET q == Head(results)
           q_id == generate_question_id(q)
       IN CollectNoSeenCheck(Tail(results), Append(qs, DictSet(q, "id", q_id)),
                             seen \cup {q_id})

\* Collect where a repeat overwrites the entry collected under its id.
RECURSIVE CollectLastWins(_, _, _)
CollectLastWins(results, qs, seen) ==
  IF results = <<>> THEN [all_questions |-> qs, seen_ids |-> seen]
  ELSE LET q == Head(results)
           q_id == generate_question_id(q)
       IN IF q_id \notin seen
          THEN CollectLastWins(Tail(results), Append(qs, DictSet(q, "id", q_id)),
                               seen \cup {q_id})
          ELSE CollectLastWins(Tail(results),
                 [i \in 1..Len(qs) |->
                    IF qs[i]["id"] = q_id THEN DictSet(q, "id", q_id) ELSE qs[i]],
                 seen)

RECURSIVE Collect(_, _, _)
Collect(results, qs, seen) ==
  IF results = <<>> THEN [all_questions |-> qs, seen_ids |-> seen]
  ELSE LET q == Head(results)
           q_id == generate_question_id(q)
       IN IF q_id \notin seen
          THEN Collect(Tail(results), Append(qs, DictSet(q, "id", q_id)),
                       seen \cup {q_id})
          ELSE Collect(Tail(results), qs, seen)

\* AfterBranch taking every code but 4 for a success.
AfterBranchNot4(d, qs, seen) ==
  IF d.response_code # 4 THEN Collect(d.results, qs, seen)
  ELSE [all_questions |-> qs, seen_ids |-> seen]

\* The collector's state after the branch on data["response_code"] that all
\* three orchestrators start with.
AfterBranch(d, qs, seen) ==
  IF d.response_code = 0 THEN Collect(d.results, qs, seen)
  ELSE [all_questions |-> qs, seen_ids |-> seen]

\* ---------------------------------------------------------- format writers
\* str.replace(old, new): every non-overlapping occurrence, left to right.
RECURSIVE replace(_, _, _)
replace(s, old, new) ==
  IF Len(s) < Len(old) THEN s
  ELSE IF SubSeq(s, 1, Len(old)) = old
       THEN new \o replace(SubSeq(s, Len(old) + 1, Len(s)), old, new)
  ELSE <<Head(s)>> \o replace(Tail(s), old, new)

\* Line 232: ": " -> "_", " " -> "_", "&" -> "and".
safe_name(category) ==
  replace(replace(replace(category, <<58, 32>>, <<95>>), <<32>>, <<95>>),
          <<38>>, <<97, 110, 100>>)

\* Keys of by_category in insertion order (first appearance).
RECURSIVE CategoryKeys(_, _)
CategoryKeys(questions, keys) ==
  IF questions = <<>> THEN keys
  ELSE CategoryKeys(Tail(questions),
                    IF Head(questions)["category"] \in Range(keys) THEN keys
                    ELSE Append(keys, Head(questions)["category"]))

FlashcardFields ==
  {"incorrect_answers", "correct_answer", "id", "question", "difficulty", "category"}

\* Flashcard without the all_options.sort() of line 240.
FlashcardUnsorted(q) ==
  [id |-> q["id"],
   question |-> q["question"],
   options |-> q["incorrect_answers"] \o <<q["correct_answer"]>>,
   answer |-> q["correct_answer"],
   difficulty |-> q["difficulty"],
   category |-> q["category"]]

\* Lines 238-249: one question in flashcard form.
Flashcard(q) ==
  [id |-> q["id"],
   question |-> q["question"],
   options |-> sorted(q["incorrect_answers"] \o <<q["correct_answer"]>>),
   answer |-> q["correct_answer"],
   difficulty |-> q["difficulty"],
   category |-> q["category"]]

\* Lines 230-258: the category files in the order of by_category; a question
\* lacking a field raises KeyError and leaves the files written before it.
RECURSIVE WriteCategories(_, _, _)
WriteCategories(keys, questions, files) ==
  IF keys = <<>> THEN [raised |-> FALSE, files |-> files]
  ELSE LET category == Head(keys)
           cat_questions == SelectSeq(questions, LAMBDA q : q["category"] = category)
       IN IF \E i \in 1..Len(cat_questions) :
               ~(FlashcardFields \subseteq DOMAIN cat_questions[i])
          THEN [raised |-> TRUE, files |-> files]
          ELSE WriteCategories(Tail(keys), questions,
                 DictSet(files, safe_name(category),
                   [category |-> category,
                    question_count |-> Len(cat_questions),
                    questions |-> [i \in 1..Len(cat_questions) |->
                                     Flashcard(cat_questions[i])]]))

\* save_flashcard_format: grouping reads q["category"] of every question
\* first, then the category files are written one by one.
save_flashcard_format(questions, files) ==
  IF \E i \in 1..Len(questions) : "category" \notin DOMAIN questions[i]
  THEN [raised |-> TRUE, files |-> files]
  ELSE WriteCategories(CategoryKeys(questions, <<>>), questions, files)

\* ------------------------------------------------------------------ state
VARIABLES
  mode,            \* which entry point runs: "full", "quick", "range", "merge"
  num_requests,    \* scrape_quick's argument
  cat_ids,         \* scrape_category_range's argument
  input_files,     \* merge_scraped_files' argument: the names 1..n of the files
  pc,              \* the next blocking call of the run
  token,           \* the session token, NoToken for None
  idx,             \* 1-based position of the outer loop
  dif,             \* 1-based position in DIFFICULTIES
  data,            \* the result of the last fetch_questions call
  request,         \* the query parameters of the last fetch
  all_questions,   \* the collection
  seen_ids,        \* the seen-identifier set
  all_categories,  \* merge: the set of category names
  archive,         \* the archive file written, NoArchive before
  flashcard_files, \* flashcard_format/<safe_name>.json, by safe_name
  raised_in,       \* the call whose exception ended the run, "none" otherwise
  failed_files,    \* merge: positions of the input files whose try block raised
  malformed_files, \* merge: positions of the input files that were Malformed
  malformed_offers,      \* merge: positions in `offered` read from Malformed files
  wellformed_categories, \* merge: the names listed by the other files
  firstCode,       \* response code of the current iteration's first fetch
  firstRequest,    \* query parameters of that fetch
  fetches,         \* fetches issued in the current iteration
  resets,          \* reset_token calls issued in the current iteration
  startLen,        \* len(all_questions) when the current iteration began
  elapsed,         \* tenths of a second slept since the last API call
  transport,       \* what the transport did to the last fetch
  called,          \* whether any API call was issued yet
  primaries,       \* first fetches of an iteration issued by the run
  retries,         \* retry fetches issued by the run
  offered          \* every question a code-0 result offered, in fetch order

vars == <<mode, num_requests, cat_ids, input_files, pc, token, idx, dif, data,
          request, all_questions, seen_ids, all_categories, archive,
          flashcard_files, raised_in, failed_files, malformed_files,
          malformed_offers, wellformed_categories, firstCode, firstRequest,
          fetches, resets, startLen, elapsed, transport, called, primaries,
          retries, offered>>

args == <<mode, num_requests, cat_ids, input_files>>
collector == <<all_questions, seen_ids>>
outputs == <<archive, flashcard_files>>
totals == <<primaries, retries>>
iteration == <<firstCode, firstRequest, fetches, resets, startLen>>
mergeState == <<all_categories, failed_files, malformed_files, malformed_offers,
                wellformed_categories>>

\* Category ids a scrape_category_range caller may pass (99 is not in the
\* catalog).
RangeIds == {9, 99}

\* The list the outer loop walks: CATEGORIES.items() or cat_ids.
Cats == IF mode = "full" THEN CatalogIds ELSE cat_ids

NoIterations ==
  CASE mode = "full" -> Len(CatalogIds) = 0
    [] mode = "quick" -> num_requests = 0
    [] OTHER -> Len(cat_ids) = 0

\* The fetch the current iteration issues (lines 144-149, 277, 322-327).
CurrentParams ==
  IF mode = "quick" THEN FetchParams(50, 0, "None", token)
  ELSE FetchParams(50, Cats[idx], DIFFICULTIES[dif], token)

InitCommon ==
  /\ pc = "start"
  /\ token = NoToken
  /\ idx = 1
  /\ dif = 1
  /\ data = NoData
  /\ request = NoRequest
  /\ all_questions = <<>>
  /\ seen_ids = {}
  /\ all_categories = {}
  /\ archive = NoArchive
  /\ flashcard_files = <<>>
  /\ raised_in = "none"
  /\ failed_files = {}
  /\ malformed_files = {}
  /\ malformed_offers = {}
  /\ wellformed_categories = {}
  /\ firstCode = NoCode
  /\ firstRequest = NoRequest
  /\ fetches = 0
  /\ resets = 0
  /\ startLen = 0
  /\ elapsed = 0
  /\ transport = "none"
  /\ called = FALSE
  /\ primaries = 0
  /\ retries = 0
  /\ offered = <<>>

InitScrape ==
  /\ mode \in {"full", "quick", "range"}
  /\ num_requests \in (IF mode = "quick" THEN 0..MaxRequests ELSE {0})
  /\ cat_ids \in (IF mode = "range" THEN SeqsUpTo(RangeIds, MaxCatIds) ELSE {<<>>})
  /\ input_files = <<>>
  /\ InitCommon

\* ----------------------------------------------------- scrape orchestrators
\* time.sleep(seconds): the time slept since the last API call grows.
sleep(t, seconds) == t + seconds

\* token = get_session_token() (lines 133, 271, 314); an exception of the
\* call is not caught by any orchestrator.
GetToken ==
  /\ mode \in {"full", "quick", "range"}
  /\ pc = "start"
  /\ \E outcome \in TokenOutcomes :
       IF outcome = "raise"
       THEN /\ pc' = "aborted"
            /\ raised_in' = "get_session_token"
            /\ token' = token
       ELSE /\ pc' = "sleep_token"
            /\ raised_in' = raised_in
            /\ token' = get_session_token(outcome)
  /\ called' = TRUE
  /\ elapsed' = 0
  /\ UNCHANGED <<args, totals, transport, idx, dif, data, request, collector, mergeState,
                 outputs, iteration, offered>>

\* time.sleep(RATE_LIMIT_DELAY) after the token request (lines 134, 272,
\* 315), then the loop is entered or, when it has nothing to walk, skipped.
SleepAfterToken ==
  /\ pc = "sleep_token"
  /\ elapsed' = sleep(elapsed, RATE_LIMIT_DELAY)
  /\ pc' = IF NoIterations THEN "save" ELSE "fetch"
  /\ UNCHANGED <<args, totals, transport, token, idx, dif, data, request, collector,
                 mergeState,
                 outputs, raised_in, iteration, called, offered>>

\* all_next without the "if token:" guard of line 170.
all_next_unguarded(code, tok) == IF code = 4 THEN "reset" ELSE "sleep_iter"

\* Where scrape_all_questions goes after the branch on the first fetch of a
\* pair: to reset_token when the code is 4 and a token is held (line 170),
\* else to the sleep that ends the iteration (line 193).
all_next(code, tok) == IF code = 4 /\ tok # NoToken THEN "reset" ELSE "sleep_iter"

\* The same for scrape_category_range (lines 339-345).
range_next(code, tok) == IF code = 4 /\ tok # NoToken THEN "reset" ELSE "sleep_iter"

\* scrape_quick sleeps only between requests (lines 291-292); i is 1-based.
quick_next(i, n) == IF i < n THEN "sleep_iter" ELSE "save"

\* After reset_token and its sleep: the full sweep retries (line 174), the
\* category-list sweep goes to the sleep that ends the iteration (line 345).
after_reset(m) == IF m = "full" THEN "retry" ELSE "sleep_iter"

\* The next blocking call after the first fetch of an iteration, by entry
\* point.
after_fetch(code) ==
  CASE mode = "full" -> all_next(code, token)
    [] mode = "quick" -> quick_next(idx, num_requests)
    [] OTHER -> range_next(code, token)

\* One fetch_questions call and the branch on its response code, for the
\* first fetch of an iteration.
FirstFetch ==
  \E outcome \in FetchOutcomes(Len(offered)) :
    LET d == fetch_questions(outcome)
        c == AfterBranch(d, all_questions, seen_ids)
    IN /\ data' = d
       /\ request' = CurrentParams
       /\ all_questions' = c.all_questions
       /\ seen_ids' = c.seen_ids
       /\ offered' = IF d.response_code = 0 THEN offered \o d.results ELSE offered
       /\ pc' = after_fetch(d.response_code)
       /\ firstCode' = d.response_code
       /\ firstRequest' = CurrentParams
       /\ fetches' = 1
       /\ resets' = 0
       /\ startLen' = Len(all_questions)
       /\ called' = TRUE
       /\ elapsed' = 0
       /\ transport' = outcome.kind
       /\ primaries' = primaries + 1
       /\ retries' = retries
       /\ UNCHANGED <<args, token, idx, dif, mergeState, outputs, raised_in>>

\* Lines 144-190 up to the next blocking call.
scrape_all_fetch ==
  /\ mode = "full"
  /\ pc = "fetch"
  /\ FirstFetch

\* Lines 277-292.
scrape_quick_fetch ==
  /\ mode = "quick"
  /\ pc = "fetch"
  /\ FirstFetch

\* Lines 322-343.
scrape_range_fetch ==
  /\ mode = "range"
  /\ pc = "fetch"
  /\ FirstFetch

\* reset_token(token) at lines 171 and 342: the result is dropped, an
\* exception of the call is not caught.
ResetToken ==
  /\ pc = "reset"
  /\ \E outcome \in TokenOutcomes :
       IF outcome = "raise"
       THEN /\ pc' = "aborted"
            /\ raised_in' = "reset_token"
       ELSE /\ pc' = "sleep_reset"
            /\ raised_in' = raised_in
  /\ resets' = resets + 1
  /\ called' = TRUE
  /\ elapsed' = 0
  /\ UNCHANGED <<args, totals, transport, token, idx, dif, data, request, collector,
                 mergeState,
                 outputs, firstCode, firstRequest, fetches, startLen, offered>>

\* time.sleep(RATE_LIMIT_DELAY) at lines 172 and 343.
SleepAfterReset ==
  /\ pc = "sleep_reset"
  /\ elapsed' = sleep(elapsed, RATE_LIMIT_DELAY)
  /\ pc' = after_reset(mode)
  /\ UNCHANGED <<args, totals, transport, token, idx, dif, data, request, collector,
                 mergeState,
                 outputs, raised_in, iteration, called, offered>>

\* Lines 174-188: the retry of scrape_all_questions.
scrape_all_retry ==
  /\ mode = "full"
  /\ pc = "retry"
  /\ \E outcome \in FetchOutcomes(Len(offered)) :
       LET d == fetch_questions(outcome)
           c == AfterBranch(d, all_questions, seen_ids)
       IN /\ data' = d
          /\ request' = CurrentParams
          /\ all_questions' = c.all_questions
          /\ seen_ids' = c.seen_ids
          /\ offered' = IF d.response_code = 0 THEN offered \o d.results ELSE offered
          /\ transport' = outcome.kind
  /\ pc' = "sleep_iter"
  /\ fetches' = fetches + 1
  /\ called' = TRUE
  /\ elapsed' = 0
  /\ retries' = retries + 1
  /\ UNCHANGED <<args, primaries, token, idx, dif, mergeState, outputs, raised_in,
                 firstCode, firstRequest, resets, startLen>>

\* The sleep that ends an iteration (lines 193, 292, 345) and the step of
\* the loops to the next iteration, or out of them.
SleepIteration ==
  /\ pc = "sleep_iter"
  /\ elapsed' = sleep(elapsed, RATE_LIMIT_DELAY)
  /\ IF mode = "quick"
     THEN /\ idx' = idx + 1
          /\ dif' = dif
          /\ pc' = "fetch"
     ELSE IF dif < Len(DIFFICULTIES)
     THEN /\ idx' = idx
          /\ dif' = dif + 1
          /\ pc' = "fetch"
     ELSE IF idx < Len(Cats)
     THEN /\ idx' = idx + 1
          /\ dif' = 1
          /\ pc' = "fetch"
     ELSE /\ idx' = idx
          /\ dif' = dif
          /\ pc' = "save"
  /\ firstCode' = NoCode
  /\ firstRequest' = NoRequest
  /\ fetches' = 0
  /\ resets' = 0
  /\ startLen' = Len(all_questions)
  /\ UNCHANGED <<args, totals, transport, token, data, request, collector, mergeState, outputs,
                 raised_in, called, offered>>

\* The archive each orchestrator dumps (lines 198-203, 297-300, 352-356).
ScrapeArchive ==
  CASE mode = "full" ->
         [total_questions |-> Len(all_questions),
          categories |-> [k \in 1..Len(CatalogIds) |-> CATEGORIES[CatalogIds[k]]],
          difficulties |-> DIFFICULTIES,
          questions |-> all_questions]
    [] mode = "quick" ->
         [total_questions |-> Len(all_questions),
          questions |-> all_questions]
    [] OTHER ->
         [total_questions |-> Len(all_questions),
          categories |-> [k \in 1..Len(cat_ids) |->
                            IF cat_ids[k] \in DOMAIN CATEGORIES
                            THEN CATEGORIES[cat_ids[k]] ELSE ToString(cat_ids[k])],
          questions |-> all_questions]

\* The archive is written; scrape_category_range returns after it, the other
\* two go on to save_flashcard_format.
SaveArchive ==
  /\ mode \in {"full", "quick", "range"}
  /\ pc = "save"
  /\ archive' = ScrapeArchive
  /\ pc' = IF mode = "range" THEN "done" ELSE "flashcards"
  /\ UNCHANGED <<args, totals, transport, token, idx, dif, data, request, collector,
                 mergeState,
                 flashcard_files, raised_in, iteration, elapsed, called, offered>>

\* save_flashcard_format(all_questions, output_path) at lines 211, 304, 399.
SaveFlashcards ==
  /\ pc = "flashcards"
  /\ LET w == save_flashcard_format(all_questions, flashcard_files)
     IN /\ flashcard_files' = w.files
        /\ pc' = IF w.raised THEN "aborted" ELSE "done"
        /\ raised_in' = IF w.raised THEN "save_flashcard_format" ELSE raised_in
  /\ UNCHANGED <<args, totals, transport, token, idx, dif, data, request, collector,
                 mergeState,
                 archive, iteration, elapsed, called, offered>>

NextScrape ==
  \/ GetToken
  \/ SleepAfterToken
  \/ scrape_all_fetch
  \/ scrape_quick_fetch
  \/ scrape_range_fetch
  \/ ResetToken
  \/ SleepAfterReset
  \/ scrape_all_retry
  \/ SleepIteration
  \/ SaveArchive
  \/ SaveFlashcards

SpecScrape == InitScrape /\ [][NextScrape]_vars

\* -------------------------------------------------------------- the merge
\* Entries of the "questions" array of an archive file.  E1 and E3 carry the
\* id a scrape stored, E2 has the content of E1 under another category and
\* no id, E4 has the content of E3 under an id of another origin, EBad has
\* an id and no "question" field.
E1 == DictSet(DecodeEntry(W1), "id", generate_question_id(DecodeEntry(W1)))
E2 == DecodeEntry(W2)
E3 == DictSet(DecodeEntry(W3), "id", generate_question_id(DecodeEntry(W3)))
E4 == DictSet(DecodeEntry(W3), "id", md5_12(<<48>>))
EBad == DictSet(WBad, "id", md5_12(<<49>>))
EntryPool == {E1, E2, E3, E4, EBad}

\* Values of the "categories" key: a list of names, or a value that cannot
\* be iterated (a number).
JsonList(items) == [iterable |-> TRUE, items |-> items]
JsonNumber == [iterable |-> FALSE, items |-> <<>>]
CategoryValues ==
  {JsonList(<<>>), JsonList(<< <<121>>, <<120>> >>), JsonList(<< <<120>>, <<120>> >>),
   JsonNumber}

\* The JSON documents an input file can hold once `given` entries were read
\* from the files before it: with or without "questions", with or without
\* "categories".
Docs(given) ==
  LET lists == {x \in SeqsUpTo(EntryPool, MaxEntries) : Len(x) + given <= MaxOffered}
  IN {[k \in {"questions", "categories"} |-> IF k = "questions" THEN qs ELSE cv] :
        qs \in lists, cv \in CategoryValues}
     \cup {[k \in {"questions"} |-> qs] : qs \in lists}
     \cup {[k \in {"categories"} |-> cv] : cv \in CategoryValues}

\* What opening and loading one input file gives: an exception (missing
\* file, corrupt JSON) or a document.
Files(given) ==
  {[readable |-> FALSE, doc |-> <<>>]}
    \cup {[readable |-> TRUE, doc |-> d] : d \in Docs(given)}

\* The file cannot be merged: it does not load, an entry of it has no
\* question text, or its categories cannot be iterated.
Malformed(file) ==
  \/ ~file.readable
  \/ \E i \in 1..Len(DictGet(file.doc, "questions", <<>>)) :
       "question" \notin DOMAIN DictGet(file.doc, "questions", <<>>)[i]
  \/ ~DictGet(file.doc, "categories", JsonList(<<>>)).iterable

InitMerge ==
  /\ mode = "merge"
  /\ num_requests = 0
  /\ cat_ids = <<>>
  /\ input_files \in {[k \in 1..n |-> k] : n \in 0..MaxFiles}
  /\ pc = IF Len(input_files) = 0 THEN "save" ELSE "merge_file"
  /\ token = NoToken
  /\ idx = 1
  /\ dif = 1
  /\ data = NoData
  /\ request = NoRequest
  /\ all_questions = <<>>
  /\ seen_ids = {}
  /\ all_categories = {}
  /\ archive = NoArchive
  /\ flashcard_files = <<>>
  /\ raised_in = "none"
  /\ failed_files = {}
  /\ malformed_files = {}
  /\ malformed_offers = {}
  /\ wellformed_categories = {}
  /\ firstCode = NoCode
  /\ firstRequest = NoRequest
  /\ fetches = 0
  /\ resets = 0
  /\ startLen = 0
  /\ elapsed = 0
  /\ transport = "none"
  /\ called = FALSE
  /\ primaries = 0
  /\ retries = 0
  /\ offered = <<>>

\* q.get("id", generate_question_id(q)): the default is computed before the
\* lookup, whether or not the entry has an id.
EntryId(q) == DictGet(q, "id", generate_question_id(q))

\* MergeQuestions taking the computed identifier even when an id is stored.
RECURSIVE MergeQuestionsComputedOnly(_, _, _)
MergeQuestionsComputedOnly(entries, qs, seen) ==
  IF entries = <<>>
  THEN [raised |-> FALSE, all_questions |-> qs, seen_ids |-> seen]
  ELSE LET q == Head(entries) IN
       IF "question" \notin DOMAIN q
       THEN [raised |-> TRUE, all_questions |-> qs, seen_ids |-> seen]
       ELSE LET q_id == generate_question_id(q) IN
            IF q_id \notin seen
            THEN MergeQuestionsComputedOnly(Tail(entries), Append(qs, q),
                                            seen \cup {q_id})
            ELSE MergeQuestionsComputedOnly(Tail(entries), qs, seen)

\* Lines 373-377: the loop over data.get("questions", []).  An entry without
\* "question" raises KeyError and ends the loop; what was collected before
\* it stays.
RECURSIVE MergeQuestions(_, _, _)
MergeQuestions(entries, qs, seen) ==
  IF entries = <<>>
  THEN [raised |-> FALSE, all_questions |-> qs, seen_ids |-> seen]
  ELSE LET q == Head(entries) IN
       IF "question" \notin DOMAIN q
       THEN [raised |-> TRUE, all_questions |-> qs, seen_ids |-> seen]
       ELSE LET q_id == EntryId(q) IN
            IF q_id \notin seen
            THEN MergeQuestions(Tail(entries), Append(qs, q), seen \cup {q_id})
            ELSE MergeQuestions(Tail(entries), qs, seen)

\* Lines 369-384: the try block for one input file.
merge_file(file, qs, seen, cats) ==
  IF ~file.readable
  THEN [raised |-> TRUE, all_questions |-> qs, seen_ids |-> seen,
        all_categories |-> cats]
  ELSE LET m == MergeQuestions(DictGet(file.doc, "questions", <<>>), qs, seen)
           cv == DictGet(file.doc, "categories", JsonList(<<>>))
       IN [raised |-> m.raised \/ ~cv.iterable,
           all_questions |-> m.all_questions,
           seen_ids |-> m.seen_ids,
           all_categories |-> IF m.raised \/ ~cv.iterable THEN cats
                              ELSE cats \cup Range(cv.items)]

\* The entries of a file that the loop of lines 373-377 gets to: all of them,
\* or those before the first one without "question"; none when the file does
\* not load.
RECURSIVE ReadEntries(_)
ReadEntries(entries) ==
  IF entries = <<>> \/ "question" \notin DOMAIN Head(entries) THEN <<>>
  ELSE <<Head(entries)>> \o ReadEntries(Tail(entries))

\* One turn of "for input_file in input_files"; what the file holds is
\* found when it is opened.
MergeFile ==
  /\ mode = "merge"
  /\ pc = "merge_file"
  /\ \E file \in Files(Len(offered)) :
       LET m == merge_file(file, all_questions, seen_ids, all_categories)
           read == IF file.readable
                   THEN ReadEntries(DictGet(file.doc, "questions", <<>>)) ELSE <<>>
       IN /\ all_questions' = m.all_questions
          /\ seen_ids' = m.seen_ids
          /\ all_categories' = m.all_categories
          /\ failed_files' = IF m.raised THEN failed_files \cup {idx} ELSE failed_files
          /\ offered' = offered \o read
          /\ malformed_files' =
               IF Malformed(file) THEN malformed_files \cup {idx} ELSE malformed_files
          /\ malformed_offers' =
               IF Malformed(file)
               THEN malformed_offers \cup (Len(offered) + 1)..(Len(offered) + Len(read))
               ELSE malformed_offers
          /\ wellformed_categories' =
               IF Malformed(file) THEN wellformed_categories
               ELSE wellformed_categories
                      \cup Range(DictGet(file.doc, "categories", JsonList(<<>>)).items)
  /\ IF idx < Len(input_files)
     THEN idx' = idx + 1 /\ pc' = pc
     ELSE idx' = idx /\ pc' = "save"
  /\ UNCHANGED <<args, totals, transport, token, dif, data, request, outputs, raised_in,
                 iteration, elapsed, called>>

\* list(all_categories): the members of the set in some order.
RECURSIVE SetToList(_)
SetToList(S) ==
  IF S = {} THEN <<>>
  ELSE LET x == CHOOSE x \in S : TRUE IN <<x>> \o SetToList(S \ {x})

\* Line 390.
merged_categories(cats) == sorted(SetToList(cats))

\* Lines 387-393: the merged archive.
SaveMerged ==
  /\ mode = "merge"
  /\ pc = "save"
  /\ archive' = [total_questions |-> Len(all_questions),
                 categories |-> merged_categories(all_categories),
                 difficulties |-> DIFFICULTIES,
                 questions |-> all_questions]
  /\ pc' = "flashcards"
  /\ UNCHANGED <<args, totals, transport, token, idx, dif, data, request, collector,
                 mergeState, flashcard_files, raised_in, iteration, elapsed,
                 called, offered>>

NextMerge ==
  \/ MergeFile
  \/ SaveMerged
  \/ SaveFlashcards

SpecMerge == InitMerge /\ [][NextMerge]_vars

\* Any of the four entry points.
Init == InitScrape \/ InitMerge

Next ==
  \/ GetToken
  \/ SleepAfterToken
  \/ scrape_all_fetch
  \/ scrape_quick_fetch
  \/ scrape_range_fetch
  \/ ResetToken
  \/ SleepAfterReset
  \/ scrape_all_retry
  \/ SleepIteration
  \/ SaveArchive
  \/ MergeFile
  \/ SaveMerged
  \/ SaveFlashcards

Spec == Init /\ [][Next]_vars

\* -------------------------------------------- the flashcard writer alone
\* A question as the collectors store it: the decoded fields and the id.
Question(category, difficulty, text, correct, incorrect) ==
  LET q == [category |-> category, difficulty |-> difficulty, question |-> text,
            correct_answer |-> correct, incorrect_answers |-> incorrect]
  IN DictSet(q, "id", generate_question_id(q))

\* Collected questions of any content.  F1, F2 and F3 are of the categories
\* "a b", "a_b" and "a: b"; F5 and F6 of "x & y" and "x_and_y"; the correct
\* answer of F2 is also among its incorrect answers; F8 has no id.
F1 == Question(<<97, 32, 98>>, "easy", <<49>>, <<98>>, << <<99>>, <<97>> >>)
F2 == Question(<<97, 95, 98>>, "easy", <<50>>, <<97>>, << <<98>>, <<97>> >>)
F3 == Question(<<97, 58, 32, 98>>, "hard", <<51>>, <<66>>, << <<97>> >>)
F4 == Question(<<97, 32, 98>>, "medium", <<52>>, <<97, 97>>, << <<97, 98>>, <<97>> >>)
F5 == Question(<<120, 32, 38, 32, 121>>, "easy", <<53>>, <<99>>, << <<98>>, <<97>> >>)
F6 == Question(<<120, 95, 97, 110, 100, 95, 121>>, "hard", <<54>>, <<97>>, << <<98>> >>)
F7 == Question(<<120>>, "medium", <<55>>, <<99>>, <<>>)
F8 == [category |-> <<120>>, difficulty |-> "easy", question |-> <<56>>,
       correct_answer |-> <<97>>, incorrect_answers |-> << <<98>> >>]
WriterPool == {F1, F2, F3, F4, F5, F6, F7, F8}

\* save_flashcard_format(questions, output_path) called with a collection of
\* pairwise different questions.
InitWriter ==
  /\ mode = "writer"
  /\ num_requests = 0
  /\ cat_ids = <<>>
  /\ input_files = <<>>
  /\ pc = "flashcards"
  /\ token = NoToken
  /\ idx = 1
  /\ dif = 1
  /\ data = NoData
  /\ request = NoRequest
  /\ all_questions \in {qs \in SeqsUpTo(WriterPool, MaxQuestions) :
                          \A i, j \in 1..Len(qs) : i # j => qs[i] # qs[j]}
  /\ seen_ids = {}
  /\ all_categories = {}
  /\ archive = NoArchive
  /\ flashcard_files = <<>>
  /\ raised_in = "none"
  /\ failed_files = {}
  /\ malformed_files = {}
  /\ malformed_offers = {}
  /\ wellformed_categories = {}
  /\ firstCode = NoCode
  /\ firstRequest = NoRequest
  /\ fetches = 0
  /\ resets = 0
  /\ startLen = 0
  /\ elapsed = 0
  /\ transport = "none"
  /\ called = FALSE
  /\ primaries = 0
  /\ retries = 0
  /\ offered = <<>>

NextWriter == SaveFlashcards

SpecWriter == InitWriter /\ [][NextWriter]_vars

\* ------------------------------------------------- the collector alone
\* Decoded result entries of any content.  H1 and H2 have the same text and
\* the same incorrect answers in another order, under two categories,
\* difficulties and correct answers.  H3 is "ab" with ["c"], H4 is "a" with
\* ["bc"], H5 is "ab" with ["cd"].
H1 == [category |-> <<120>>, difficulty |-> "easy", question |-> <<97, 98>>,
       correct_answer |-> <<101>>, incorrect_answers |-> << <<99>>, <<100>> >>]
H2 == [category |-> <<121>>, difficulty |-> "hard", question |-> <<97, 98>>,
       correct_answer |-> <<102>>, incorrect_answers |-> << <<100>>, <<99>> >>]
H3 == [category |-> <<120>>, difficulty |-> "easy", question |-> <<97, 98>>,
       correct_answer |-> <<101>>, incorrect_answers |-> << <<99>> >>]
H4 == [category |-> <<120>>, difficulty |-> "easy", question |-> <<97>>,
       correct_answer |-> <<101>>, incorrect_answers |-> << <<98, 99>> >>]
H5 == [category |-> <<120>>, difficulty |-> "easy", question |-> <<97, 98>>,
       correct_answer |-> <<101>>, incorrect_answers |-> << <<99, 100>> >>]
HashPool == {H1, H2, H3, H4, H5}

\* The collector before its first result.
InitCollect ==
  /\ mode = "collect"
  /\ num_requests = 0
  /\ cat_ids = <<>>
  /\ input_files = <<>>
  /\ pc = "fetch"
  /\ token = NoToken
  /\ idx = 1
  /\ dif = 1
  /\ data = NoData
  /\ request = NoRequest
  /\ all_questions = <<>>
  /\ seen_ids = {}
  /\ all_categories = {}
  /\ archive = NoArchive
  /\ flashcard_files = <<>>
  /\ raised_in = "none"
  /\ failed_files = {}
  /\ malformed_files = {}
  /\ malformed_offers = {}
  /\ wellformed_categories = {}
  /\ firstCode = NoCode
  /\ firstRequest = NoRequest
  /\ fetches = 0
  /\ resets = 0
  /\ startLen = 0
  /\ elapsed = 0
  /\ transport = "none"
  /\ called = FALSE
  /\ primaries = 0
  /\ retries = 0
  /\ offered = <<>>

\* Lines 151-161 on one decoded result with code 0: every entry is filed
\* under its identifier unless the identifier was seen.
CollectResults ==
  /\ mode = "collect"
  /\ pc = "fetch"
  /\ \E results \in {r \in SeqsUpTo(HashPool, MaxResults) :
                       Len(r) + Len(offered) <= MaxOffered} :
       LET c == Collect(results, all_questions, seen_ids)
       IN /\ data' = [response_code |-> 0, results |-> results]
          /\ all_questions' = c.all_questions
          /\ seen_ids' = c.seen_ids
          /\ offered' = offered \o results
  /\ UNCHANGED <<args, totals, pc, token, idx, dif, request, mergeState, outputs,
                 raised_in, iteration, elapsed, transport, called>>

NextCollect == CollectResults

SpecCollect == InitCollect /\ [][NextCollect]_vars

\* ------------------------------------------------- claims on the scrapers
\* The current iteration has issued its last call.
IterationOver == pc = "sleep_iter" \/ (mode = "quick" /\ pc = "save" /\ fetches > 0)

Ids(qs) == {qs[i]["id"] : i \in 1..Len(qs)}

\* The identifier the collector of the running entry point files a question
\* under, and the entry it stores for it.
IdOf(q) ==
  IF mode = "merge" THEN (IF "id" \in DOMAIN q THEN q["id"] ELSE generate_question_id(q))
  ELSE generate_question_id(q)
StoredAs(q) == IF mode = "merge" THEN q ELSE DictSet(q, "id", IdOf(q))

\* The entries of a log of offered questions that are the first with their
\* identifier, in log order, as the collector stores them.
FirstOccurrences(log) ==
  LET first == SelectSeq([i \in 1..Len(log) |-> i],
                 LAMBDA i : \A j \in 1..(i - 1) : IdOf(log[j]) # IdOf(log[i]))
  IN [k \in 1..Len(first) |-> StoredAs(log[first[k]])]

IsPrefix(a, b) == Len(a) <= Len(b) /\ SubSeq(b, 1, Len(a)) = a

C2_SamePolicyInAllThree ==
  IterationOver =>
    /\ (firstCode = 4 /\ token # NoToken) => (resets = 1 /\ fetches = 2)
    /\ (firstCode # 4) => (resets = 0 /\ fetches = 1)

\* C3: the identifiers of the collected questions are pairwise distinct, the
\* seen set is exactly the set of these identifiers, and the archive written
\* holds the collection with total_questions equal to its length.
C3_UniqueIdsSeenSetAndTotal ==
  /\ \A i, j \in 1..Len(all_questions) :
       i # j => all_questions[i]["id"] # all_questions[j]["id"]
  /\ seen_ids = Ids(all_questions)
  /\ (pc \in {"flashcards", "done"} =>
        /\ archive.questions = all_questions
        /\ archive.total_questions = Len(all_questions)
        /\ archive.total_questions = Cardinality(Ids(archive.questions)))

C3_Witness ==
  /\ pc = "done"
  /\ Len(all_questions) >= 2
  /\ Len(offered) > Len(all_questions)

\* C4: every step leaves the entries already collected in place, and the
\* collection is the first occurrence of every offered identifier, in fetch
\* order; a result whose identifiers were all seen changes neither the
\* collection nor the seen set.
C4_Step ==
  /\ IsPrefix(all_questions, all_questions')
  /\ all_questions' = FirstOccurrences(offered')
  /\ ((\A i \in 1..(Len(offered') - Len(offered)) :
         IdOf(offered'[Len(offered) + i]) \in seen_ids)
      => (all_questions' = all_questions /\ seen_ids' = seen_ids))

C4_FirstSeenWins == [][C4_Step]_vars

C4_Witness ==
  /\ mode \in {"full", "merge"}
  /\ Len(offered) = 3
  /\ Len(all_questions) = 2
  /\ all_questions[1]["category"] # offered[2]["category"]
  /\ IdOf(offered[2]) = IdOf(all_questions[1])

\* C5: an API call (token request, reset, fetch, retry) that is not the
\* first of the run is issued only after at least RATE_LIMIT_DELAY was slept
\* since the call before it.
C5_DelayBetweenCalls ==
  (called /\ pc \in {"start", "fetch", "reset", "retry"}) => elapsed >= RATE_LIMIT_DELAY

\* C6: a fetch whose transport failed returns code -1 with no results and
\* does not end the run; a fetch result whose code is neither 0 nor 4 changes
\* neither the collection nor the seen set and is followed by no reset and no
\* retry: the run goes to the end of the iteration.
C6_Step ==
  pc \in {"fetch", "retry"} =>
    /\ (transport' = "failure" =>
          /\ data'.response_code = 0 - 1
          /\ data'.results = <<>>
          /\ pc' # "aborted")
    /\ (data'.response_code \notin {0, 4} =>
          /\ all_questions' = all_questions
          /\ seen_ids' = seen_ids
          /\ resets' = (IF pc = "fetch" THEN 0 ELSE resets)
          /\ pc' \in {"sleep_iter", "save"}
          /\ raised_in' = "none")

C6_OtherCodesContinue == [][C6_Step]_vars

C6_Witness ==
  /\ transport = "failure" /\ data.response_code = 0 - 1
  /\ pc = "sleep_iter" /\ Len(all_questions) > 0

\* C7: a failed token request never ends the run.
C7_TokenBestEffort == raised_in # "get_session_token"

\* C8: a failed reset_token call never ends the run.
C8_ResetFailureAbsorbed == raised_in # "reset_token"

\* --------------------------------------------------- claims on the merge
\* The identifier of an archive entry: its stored id, the computed one when
\* it has none.
Identifier(e) == IF "id" \in DOMAIN e THEN e["id"] ELSE generate_question_id(e)

ArchiveWritten == pc \in {"flashcards", "done", "aborted"}

\* C9: merging archive files (every file loads, every entry has its question
\* text) gives an archive whose total_questions is the number of distinct
\* identifiers of the entries of all inputs, whose questions are one input
\* entry per identifier, and whose categories are the names the inputs list,
\* strictly ascending.
C9_MergedTotalsAndCategories ==
  (mode = "merge" /\ ArchiveWritten /\ malformed_files = {}) =>
    LET ids == {Identifier(offered[i]) : i \in 1..Len(offered)}
        qs == archive.questions
        cs == archive.categories
    IN /\ archive.total_questions = Cardinality(ids)
       /\ Len(qs) = Cardinality(ids)
       /\ {Identifier(qs[i]) : i \in 1..Len(qs)} = ids
       /\ \A i \in 1..Len(qs) : qs[i] \in Range(offered)
       /\ \A i \in 1..(Len(cs) - 1) : StrLess(cs[i], cs[i + 1])
       /\ Range(cs) = wellformed_categories

C9_Witness ==
  /\ mode = "merge" /\ ArchiveWritten /\ malformed_files = {}
  /\ Len(input_files) = 2 /\ idx = 2
  /\ Len(offered) = 3
  /\ archive.total_questions = 2
  /\ archive.categories = << <<120>>, <<121>> >>

\* The log of offered entries without those read from Malformed files.
WellformedOffers ==
  LET keep == SelectSeq([i \in 1..Len(offered) |-> i],
                        LAMBDA i : i \notin malformed_offers)
  IN [k \in 1..Len(keep) |-> offered[keep[k]]]

\* C10: an input file that raises contributes no question and no category:
\* the collection is what the other files alone give, each processed in
\* full, and the categories are the names those files list.
C10_FailedFileContributesNothing ==
  mode = "merge" =>
    /\ all_questions = FirstOccurrences(WellformedOffers)
    /\ all_categories = wellformed_categories
    /\ failed_files = malformed_files

\* ------------------------------------------ claims on the flashcard writer
\* The flashcards of all category files on disk.
WrittenFlashcards ==
  UNION {Range(flashcard_files[n].questions) : n \in DOMAIN flashcard_files}

\* The question of the collection a flashcard was made from.
SourceOf(fc) == CHOOSE q \in Range(all_questions) : "id" \in DOMAIN q /\ q["id"] = fc.id

Count(s, x) == Cardinality({i \in 1..Len(s) : s[i] = x})

Ascending(s) == \A i \in 1..(Len(s) - 1) : ~StrLess(s[i + 1], s[i])

\* C11 as stated: the options of every flashcard are sorted ascending, hold
\* the correct answer exactly once and every incorrect answer, and the answer
\* is one of the options.
C11_CorrectAnswerExactlyOnce ==
  \A fc \in WrittenFlashcards :
    LET q == SourceOf(fc)
    IN /\ Ascending(fc.options)
       /\ Count(fc.options, q["correct_answer"]) = 1
       /\ Range(q["incorrect_answers"]) \subseteq Range(fc.options)
       /\ fc.answer \in Range(fc.options)

\* C11, amended: the options of every flashcard are sorted ascending and are
\* the incorrect answers plus one copy of the correct answer, no more and no
\* less, and the answer is the correct answer, which is one of the options.
C11_OptionsSortedIncorrectPlusCorrect ==
  \A fc \in WrittenFlashcards :
    LET q == SourceOf(fc)
    IN /\ Ascending(fc.options)
       /\ \A x \in Range(fc.options) \cup Range(q["incorrect_answers"])
                     \cup {q["correct_answer"]} :
            Count(fc.options, x) =
              Count(q["incorrect_answers"], x)
                + (IF x = q["correct_answer"] THEN 1 ELSE 0)
       /\ fc.answer = q["correct_answer"]
       /\ fc.answer \in Range(fc.options)

C11_Witness ==
  /\ pc = "done"
  /\ \E fc \in WrittenFlashcards :
       /\ fc.options = << <<97>>, <<98>>, <<99>> >>
       /\ fc.answer = <<98>>
       /\ SourceOf(fc)["incorrect_answers"] = << <<99>>, <<97>> >>

\* ------------------------------------------- claims on the identity hasher
\* Same text and the same incorrect answers, in any order.
SameIdentity(a, b) ==
  /\ a["question"] = b["question"]
  /\ \A x \in Range(a["incorrect_answers"]) \cup Range(b["incorrect_answers"]) :
       Count(a["incorrect_answers"], x) = Count(b["incorrect_answers"], x)

\* The first question of the log whose identifier is id.
FirstWithId(log, id) ==
  log[CHOOSE k \in 1..Len(log) :
        /\ generate_question_id(log[k]) = id
        /\ \A m \in 1..(k - 1) : generate_question_id(log[m]) # id]

\* C12: two fetched questions with the same text and the same incorrect
\* answers in any order have the same identifier, whatever their category,
\* difficulty and correct answer; exactly one collected entry carries that
\* identifier, it is the first question fetched with it, and no two collected
\* entries have this text and these incorrect answers.
C12_IdOfTextAndIncorrectOnly ==
  \A i, j \in 1..Len(offered) :
    SameIdentity(offered[i], offered[j]) =>
      LET id == generate_question_id(offered[i])
      IN /\ generate_question_id(offered[j]) = id
         /\ Cardinality({n \in 1..Len(all_questions) :
                           all_questions[n]["id"] = id}) = 1
         /\ DictSet(FirstWithId(offered, id), "id", id) \in Range(all_questions)
         /\ Cardinality({n \in 1..Len(all_questions) :
                           SameIdentity(all_questions[n], offered[i])}) <= 1

C12_Witness ==
  /\ Len(offered) >= 2
  /\ offered[1] = H1
  /\ offered[2] = H2
  /\ all_questions = <<DictSet(H1, "id", generate_question_id(H1))>>

\* C13 as stated: two fetched questions that differ in text or in their
\* incorrect answers feed different content to the digest, get different
\* identifiers, and each has its collected entry.
C13_DistinctQuestionsDistinctIds ==
  \A i, j \in 1..Len(offered) :
    ~SameIdentity(offered[i], offered[j]) =>
      /\ Content(offered[i]) # Content(offered[j])
      /\ generate_question_id(offered[i]) # generate_question_id(offered[j])
      /\ \E n \in 1..Len(all_questions) : SameIdentity(all_questions[n], offered[i])
      /\ \E n \in 1..Len(all_questions) : SameIdentity(all_questions[n], offered[j])

\* ------------------------------------------------- claims on the sweeps
\* The run is over: it returned or an exception ended it.
RunOver == pc \in {"done", "aborted"}

\* The (category, difficulty) pairs of the full sweep.
Pairs == Len(CatalogIds) * Len(DIFFICULTIES)

\* C14 as stated: every run of the full sweep ends having issued exactly one
\* primary fetch for each (category, difficulty) pair, in catalog order, and
\* at most one retry per pair, hence at most 2 x |catalog| x 3 fetches, and
\* writes its output only after the last pair, and does write it.
C14_FullSweepEveryPairThenOutput ==
  mode = "full" =>
    /\ fetches <= 2
    /\ retries <= primaries
    /\ primaries + retries <= 2 * Len(CatalogIds) * 3
    /\ (fetches >= 1 =>
          /\ primaries = (idx - 1) * Len(DIFFICULTIES) + dif
          /\ firstRequest = FetchParams(50, CatalogIds[idx], DIFFICULTIES[dif], token)
          /\ request = firstRequest)
    /\ (archive # NoArchive => primaries = Pairs)
    /\ (RunOver => /\ primaries = Pairs
                   /\ archive # NoArchive)

\* C15 as stated: every run of the quick sweep with count N ends having
\* issued exactly N fetches, none a retry, each without category and
\* difficulty and with the token acquired at the start, whatever the codes,
\* and writes its output after them, and does write it.
C15_QuickSweepNFetchesThenOutput ==
  mode = "quick" =>
    /\ retries = 0
    /\ primaries <= num_requests
    /\ (fetches >= 1 =>
          /\ "category" \notin DOMAIN request
          /\ "difficulty" \notin DOMAIN request
          /\ ("token" \in DOMAIN request) = (token # NoToken)
          /\ (token # NoToken => request["token"] = token))
    /\ (archive # NoArchive => primaries = num_requests)
    /\ (RunOver => /\ primaries = num_requests
                   /\ archive # NoArchive)

\* --------------------------------------- claims on what reaches the writer
\* C16 as stated: every question handed to the flashcard writer by the full
\* sweep, the quick sweep or the merge carries an id, and a merge that wrote
\* its merged archive ends with its flashcard files written.
C16_WriterInputCarriesId ==
  /\ (pc = "flashcards" =>
        \A n \in 1..Len(all_questions) : "id" \in DOMAIN all_questions[n])
  /\ (mode = "merge" /\ RunOver /\ archive # NoArchive =>
        /\ pc = "done"
        /\ raised_in = "none")

\* The sum of the question_count fields of the files named in names.
RECURSIVE SumQuestionCount(_)
SumQuestionCount(names) ==
  IF names = {} THEN 0
  ELSE LET n == CHOOSE x \in names : TRUE
       IN flashcard_files[n].question_count + SumQuestionCount(names \ {n})

\* C17 as stated: after the flashcard writer returned, every question of its
\* input is in exactly one category file, every file holds questions of one
\* category name only, the one it is labelled with, and the question_count
\* fields of the files on disk sum to the number of input questions.
C17_WriterPartitionsInput ==
  (mode = "writer" /\ pc = "done") =>
    /\ \A i \in 1..Len(all_questions) :
         Cardinality({n \in DOMAIN flashcard_files :
                        \E fc \in Range(flashcard_files[n].questions) :
                          fc.id = all_questions[i]["id"]}) = 1
    /\ \A n \in DOMAIN flashcard_files :
         \A fc \in Range(flashcard_files[n].questions) :
           fc.category = flashcard_files[n].category
    /\ SumQuestionCount(DOMAIN flashcard_files) = Len(all_questions)

====
